---- MODULE Spec2Model ----
(***************************************************************************)
(* Model of src/cashier.py: a terminal cashier.  One session of main():    *)
(* the selection prompt, the quantity prompt, the cart, the receipt.       *)
(*                                                                         *)
(* Representation.  A Python str is a sequence of pieces; a piece is a     *)
(* one-character string ("7", " ", "c") or, for text the program prints    *)
(* verbatim, a literal chunk.  Characters outside ASCII are named: "SUP2"  *)
(* is U+00B2 (superscript two), "ARABIC3" is U+0663 (arabic-indic three).  *)
(* A Python int is unbounded; it is modelled as its decimal digits, most   *)
(* significant first, without leading zeros (zero is the empty sequence),  *)
(* so that sums and products beyond 2^31 and 2^53 are exact.               *)
(***************************************************************************)
EXTENDS Integers, Sequences, FiniteSets, TLC

(***************************************************************************)
(* Python int: unbounded naturals as digit sequences.                      *)
(***************************************************************************)
Front(s) == SubSeq(s, 1, Len(s) - 1)

Last(s) == s[Len(s)]

RECURSIVE Norm(_)
Norm(n) == IF n # <<>> /\ Head(n) = 0 THEN Norm(Tail(n)) ELSE n

RECURSIVE ToNum(_)
ToNum(k) == IF k = 0 THEN <<>> ELSE Append(ToNum(k \div 10), k % 10)

RECURSIVE ToInt(_)
ToInt(n) == IF n = <<>> THEN 0 ELSE 10 * ToInt(Front(n)) + Last(n)

RECURSIVE AddC(_, _, _)
AddC(a, b, c) ==
    IF a = <<>> /\ b = <<>>
    THEN ToNum(c)
    ELSE LET da == IF a = <<>> THEN 0 ELSE Last(a)
             db == IF b = <<>> THEN 0 ELSE Last(b)
             ra == IF a = <<>> THEN <<>> ELSE Front(a)
             rb == IF b = <<>> THEN <<>> ELSE Front(b)
             s  == da + db + c
         IN  Append(AddC(ra, rb, s \div 10), s % 10)

Add(a, b) == AddC(a, b, 0)

RECURSIVE MulC(_, _, _)
MulC(p, n, c) ==
    IF n = <<>>
    THEN ToNum(c)
    ELSE LET s == p * Last(n) + c
         IN  Append(MulC(p, Front(n), s \div 10), s % 10)

\* p * n for a small natural p (a menu price) and an unbounded n
Mul(p, n) == Norm(MulC(p, n, 0))

RECURSIVE DivTwo(_, _)
DivTwo(n, carry) ==
    IF n = <<>>
    THEN [q |-> <<>>, r |-> carry]
    ELSE LET cur  == 10 * carry + Head(n)
             rest == DivTwo(Tail(n), cur % 2)
         IN  [q |-> <<cur \div 2>> \o rest.q, r |-> rest.r]

\* n = 2 * Half(n).q + Half(n).r
Half(n) == LET h == DivTwo(n, 0) IN [q |-> Norm(h.q), r |-> h.r]

RECURSIVE LexLess(_, _)
LexLess(a, b) ==
    /\ a # <<>>
    /\ \/ Head(a) < Head(b)
       \/ Head(a) = Head(b) /\ LexLess(Tail(a), Tail(b))

Less(a, b) == Len(a) < Len(b) \/ (Len(a) = Len(b) /\ LexLess(a, b))

IsOdd(n) == n # <<>> /\ Last(n) % 2 = 1

RECURSIVE ShiftLeft(_, _)
ShiftLeft(n, k) == IF k = 0 THEN n ELSE ShiftLeft(Add(n, n), k - 1)

(***************************************************************************)
(* format_currency: f"Rp {value:,.0f}".replace(",", ".")                   *)
(* The "f" presentation type converts the int to a C double first          *)
(* (53-bit significand, round half to even), then prints the double's      *)
(* exact integer value with "," every three digits.  (From 2^1024 on the   *)
(* conversion raises OverflowError; the amounts of this model are below.)  *)
(***************************************************************************)
\* 2^53 = 9007199254740992: every int below it is a double
TwoPow53 == <<9, 0, 0, 7, 1, 9, 9, 2, 5, 4, 7, 4, 0, 9, 9, 2>>

RECURSIVE RoundShift(_, _, _, _)
RoundShift(n, guard, sticky, k) ==
    IF Less(n, TwoPow53)
    THEN LET up == guard = 1 /\ (sticky \/ IsOdd(n))
         IN  ShiftLeft(IF up THEN Add(n, <<1>>) ELSE n, k)
    ELSE LET h == Half(n)
         IN  RoundShift(h.q, h.r, sticky \/ guard = 1, k + 1)

\* float(value): the nearest double, ties to even
float(value) == RoundShift(value, 0, FALSE, 0)

DigitChars == <<"0", "1", "2", "3", "4", "5", "6", "7", "8", "9">>

\* str(n) for an int n >= 0
str(n) == IF n = <<>> THEN <<"0">> ELSE [i \in 1..Len(n) |-> DigitChars[n[i] + 1]]

\* the "," option: a separator before every group of three digits from the right
Grouped(digits, sep) ==
    LET L == Len(digits)
        RECURSIVE G(_)
        G(i) == IF i > L THEN <<>>
                ELSE (IF i > 1 /\ (L - i + 1) % 3 = 0 THEN <<sep>> ELSE <<>>)
                     \o <<digits[i]>> \o G(i + 1)
    IN  G(1)

replace(s, old, new) == [i \in 1..Len(s) |-> IF s[i] = old THEN new ELSE s[i]]

format_currency(value) ==
    <<"R", "p", " ">> \o replace(Grouped(str(float(value)), ","), ",", ".")

(***************************************************************************)
(* str methods used on the input lines, and the f-string padding.          *)
(***************************************************************************)
Whitespace == {" "}

RECURSIVE lstrip(_)
lstrip(s) == IF s # <<>> /\ Head(s) \in Whitespace THEN lstrip(Tail(s)) ELSE s

RECURSIVE rstrip(_)
rstrip(s) == IF s # <<>> /\ Last(s) \in Whitespace THEN rstrip(Front(s)) ELSE s

strip(s) == rstrip(lstrip(s))

LowerOf(ch) ==
    CASE ch = "C" -> "c"
      [] ch = "Q" -> "q"
      [] ch = "A" -> "a"
      [] OTHER -> ch

lower(s) == [i \in 1..Len(s) |-> LowerOf(s[i])]

\* characters int() reads as a decimal digit (Unicode category Nd)
DecimalChars == {DigitChars[i] : i \in 1..10} \cup {"ARABIC3"}

\* characters str.isdigit() accepts: the decimal digits and the digits that
\* are not decimal, such as the superscripts
IsDigitChars == DecimalChars \cup {"SUP2"}

isdigit(s) == s # <<>> /\ \A i \in 1..Len(s) : s[i] \in IsDigitChars

DigitValue(ch) ==
    IF ch = "ARABIC3" THEN 3
    ELSE CHOOSE d \in 0..9 : DigitChars[d + 1] = ch

\* int(s) for an s that passed isdigit(): the value, or ValueError when a
\* character is a digit but not a decimal digit
int(s) ==
    IF \A i \in 1..Len(s) : s[i] \in DecimalChars
    THEN [raised |-> FALSE, value |-> Norm([i \in 1..Len(s) |-> DigitValue(s[i])])]
    ELSE [raised |-> TRUE, value |-> <<>>]

RECURSIVE TextLen(_)
TextLen(s) == IF s = <<>> THEN 0 ELSE Len(Head(s)) + TextLen(Tail(s))

Spaces(k) == [i \in 1..k |-> " "]

\* {s:<w}
ljust(s, w) == IF TextLen(s) >= w THEN s ELSE s \o Spaces(w - TextLen(s))

\* {s:>w}
rjust(s, w) == IF TextLen(s) >= w THEN s ELSE Spaces(w - TextLen(s)) \o s

(***************************************************************************)
(* Python dict: the entries [key, value] in insertion order.               *)
(***************************************************************************)
Keys(d) == {d[i].key : i \in 1..Len(d)}

\* d[k], for a key of d
Get(d, k) == d[CHOOSE i \in 1..Len(d) : d[i].key = k].value

\* d.values()
values(d) == [i \in 1..Len(d) |-> d[i].value]

\* a variant of sorted: the entries as the dict holds them, in insertion order
unsorted(items) == items

\* sorted(d.items()): the entries by ascending key
RECURSIVE sorted(_)
sorted(items) ==
    IF items = <<>> THEN <<>>
    ELSE LET j == CHOOSE i \in 1..Len(items) :
                    /\ \A k \in 1..Len(items) : items[i].key <= items[k].key
                    /\ \A k \in 1..(i - 1) : items[k].key # items[i].key
         IN  <<items[j]>>
             \o sorted(SubSeq(items, 1, j - 1) \o SubSeq(items, j + 1, Len(items)))

(***************************************************************************)
(* The catalog.                                                            *)
(***************************************************************************)
MenuItem(name, price) == [name |-> name, price |-> price]

build_menu ==
    <<[key |-> 1, value |-> MenuItem("Nasi Goreng", 25000)],
      [key |-> 2, value |-> MenuItem("Mie Goreng", 23000)],
      [key |-> 3, value |-> MenuItem("Ayam Bakar", 30000)],
      [key |-> 4, value |-> MenuItem("Sate Ayam", 28000)],
      [key |-> 5, value |-> MenuItem("Soto Ayam", 26000)],
      [key |-> 6, value |-> MenuItem("Pisang Goreng", 12000)],
      [key |-> 7, value |-> MenuItem("Roti Bakar", 15000)],
      [key |-> 8, value |-> MenuItem("Tempe Mendoan", 10000)],
      [key |-> 9, value |-> MenuItem("Teh Manis", 8000)],
      [key |-> 10, value |-> MenuItem("Kopi Tubruk", 12000)]>>

\* the absent item number of the 'checkout', 'quit' and 'invalid' results
None == 0

MenuRow(entry) ==
    str(ToNum(entry.key)) \o <<".", " ">> \o ljust(<<entry.value.name>>, 12)
    \o <<" ">> \o format_currency(ToNum(entry.value.price))

display_menu(m) ==
    << <<>>, <<"=== Menu ===">> >>
    \o [i \in 1..Len(m) |-> MenuRow(sorted(m)[i])]
    \o << <<"--------------">>,
          <<"Enter an item number to add to cart.">>,
          <<"Type 'c' to checkout or 'q' to quit without checkout.">> >>

(***************************************************************************)
(* The two prompts.                                                        *)
(***************************************************************************)
Result(action, item_number) ==
    [raised |-> FALSE, action |-> action, item_number |-> item_number]

\* item_number in menu, for the int item_number = n
InMenu(m, n) == \E k \in Keys(m) : ToNum(k) = n

prompt_item_selection(m, text) ==
    LET user_input == lower(strip(text))
    IN  IF user_input = <<"c">> THEN Result("checkout", None)
        ELSE IF user_input = <<"q">> THEN Result("quit", None)
        ELSE IF ~isdigit(user_input) THEN Result("invalid", None)
        ELSE IF int(user_input).raised
             THEN [raised |-> TRUE, action |-> "ValueError", item_number |-> None]
        ELSE IF ~InMenu(m, int(user_input).value) THEN Result("invalid", None)
        ELSE Result("add", CHOOSE k \in Keys(m) : ToNum(k) = int(user_input).value)

\* a variant of prompt_quantity without the "quantity <= 0" test
prompt_quantity_any(text) ==
    LET qty_input == strip(text)
    IN  IF ~isdigit(qty_input)
        THEN [raised |-> FALSE, valid |-> FALSE, quantity |-> <<>>]
        ELSE IF int(qty_input).raised
        THEN [raised |-> TRUE, valid |-> FALSE, quantity |-> <<>>]
        ELSE [raised |-> FALSE, valid |-> TRUE, quantity |-> int(qty_input).value]

\* [raised, valid, quantity]: valid = FALSE is the None result
prompt_quantity(text) ==
    LET qty_input == strip(text)
    IN  IF ~isdigit(qty_input)
        THEN [raised |-> FALSE, valid |-> FALSE, quantity |-> <<>>]
        ELSE IF int(qty_input).raised
        THEN [raised |-> TRUE, valid |-> FALSE, quantity |-> <<>>]
        ELSE IF int(qty_input).value = <<>>
        THEN [raised |-> FALSE, valid |-> FALSE, quantity |-> <<>>]
        ELSE [raised |-> FALSE, valid |-> TRUE, quantity |-> int(qty_input).value]

(***************************************************************************)
(* The cart: a dict from item numbers to CartLines.                        *)
(***************************************************************************)
CartLine(item, quantity) == [item |-> item, quantity |-> quantity]

subtotal(line) == Mul(line.item.price, line.quantity)

\* a variant of add_to_cart that assigns the quantity where the code adds it
add_to_cart_assign(c, item_number, m, quantity) ==
    IF item_number \in Keys(c)
    THEN [i \in 1..Len(c) |->
            IF c[i].key = item_number
            THEN [key |-> c[i].key, value |-> CartLine(c[i].value.item, quantity)]
            ELSE c[i]]
    ELSE Append(c, [key |-> item_number,
                    value |-> CartLine(Get(m, item_number), quantity)])

\* a variant of add_to_cart that starts a new dict for an item not yet in it
add_to_cart_fresh(c, item_number, m, quantity) ==
    IF item_number \in Keys(c)
    THEN [i \in 1..Len(c) |->
            IF c[i].key = item_number
            THEN [key |-> c[i].key,
                  value |-> CartLine(c[i].value.item, Add(c[i].value.quantity, quantity))]
            ELSE c[i]]
    ELSE <<[key |-> item_number, value |-> CartLine(Get(m, item_number), quantity)]>>

\* a variant of add_to_cart that looks the item up counting from the end of
\* the menu
add_to_cart_other_item(c, item_number, m, quantity) ==
    IF item_number \in Keys(c)
    THEN [i \in 1..Len(c) |->
            IF c[i].key = item_number
            THEN [key |-> c[i].key,
                  value |-> CartLine(c[i].value.item, Add(c[i].value.quantity, quantity))]
            ELSE c[i]]
    ELSE Append(c, [key |-> item_number,
                    value |-> CartLine(m[Len(m) + 1 - item_number].value, quantity)])

add_to_cart(c, item_number, m, quantity) ==
    IF item_number \in Keys(c)
    THEN [i \in 1..Len(c) |->
            IF c[i].key = item_number
            THEN [key |-> c[i].key,
                  value |-> CartLine(c[i].value.item, Add(c[i].value.quantity, quantity))]
            ELSE c[i]]
    ELSE Append(c, [key |-> item_number,
                    value |-> CartLine(Get(m, item_number), quantity)])

RECURSIVE sum(_)
sum(s) == IF s = <<>> THEN <<>> ELSE Add(Head(s), sum(Tail(s)))

calculate_total(c) == sum([i \in 1..Len(c) |-> subtotal(values(c)[i])])

ReceiptRow(line) ==
    ljust(<<line.item.name>>, 15)
    \o rjust(str(line.quantity), 5)
    \o rjust(format_currency(ToNum(line.item.price)), 12)
    \o rjust(format_currency(subtotal(line)), 14)

TotalRow(c) == ljust(<<"Total">>, 32) \o rjust(format_currency(calculate_total(c)), 14)

Rule == [i \in 1..46 |-> "-"]

EmptyCartMessage == << <<>>, <<"Your cart is empty. Nothing to checkout.">> >>

BillHeader ==
    << <<>>, <<"=== Itemized Bill ===">>,
       ljust(<<"Item">>, 15) \o rjust(<<"Qty">>, 5)
          \o rjust(<<"Price">>, 12) \o rjust(<<"Subtotal">>, 14),
       Rule >>

\* a variant of print_receipt without the test for the empty cart
print_receipt_always(c) ==
    BillHeader
    \o [i \in 1..Len(c) |-> ReceiptRow(sorted(c)[i].value)]
    \o <<Rule, TotalRow(c)>>

print_receipt(c) ==
    IF c = <<>>
    THEN EmptyCartMessage
    ELSE BillHeader
         \o [i \in 1..Len(c) |-> ReceiptRow(sorted(c)[i].value)]
         \o <<Rule, TotalRow(c)>>

(***************************************************************************)
(* main(): one session.  The program blocks in input() at the selection    *)
(* prompt (pc = "Browsing") or at the quantity prompt                      *)
(* (pc = "AwaitingQuantity"); each action is the code that runs from one   *)
(* line being read up to the next input() or the end of the process.       *)
(***************************************************************************)
VARIABLES
    menu,        \* main's menu: the dict build_menu() returned
    pc,          \* where main() is: "Browsing", "AwaitingQuantity", the ends
                 \* "Checkout" and "Quit", or "Crashed" (an uncaught exception)
    cart,        \* main's cart
    item_number, \* main's item_number
    out,         \* the lines written to stdout since the last line was read
    log,         \* history: the add_to_cart calls made, [item_number, quantity]
    last         \* history: the prompt and the text of the last line read

vars == <<menu, pc, cart, item_number, out, log, last>>

\* the number of add_to_cart calls of a session
MaxAdds == 2

\* the lines the operator may type at the selection prompt
SelectionLines ==
    { <<"c">>, <<"q">>, <<"C">>, <<" ", "q", " ">>,
      <<"1">>, <<"0", "1">>, <<"6">>, <<"9">>,
      <<>>, <<"a", "b", "c">>, <<"9", "9">>, <<"0">>, <<"-", "1">>, <<"SUP2">> }

\* 2882303761519: 25000 times it is above 2^53 and not a multiple of 16
BigQuantity == <<"2", "8", "8", "2", "3", "0", "3", "7", "6", "1", "5", "1", "9">>

\* the lines the operator may type at the quantity prompt
QuantityLines ==
    { <<"1">>, <<"2">>, <<"3">>, <<" ", "2", " ">>, <<"ARABIC3">>, BigQuantity,
      <<>>, <<"0">>, <<"-", "1">>, <<"t", "w", "o">>, <<"c">>, <<"q">>, <<"SUP2">> }

SelectionPrompt == <<"Select item number (or 'c' to checkout, 'q' to quit): ">>

QuantityPrompt == <<"Enter quantity: ">>

InvalidSelectionMessage ==
    <<"Invalid selection. Please enter a valid item number, 'c', or 'q'.">>

InvalidQuantityMessage == <<"Invalid quantity. Please enter a positive whole number.">>

AddedMessage(quantity, selected_item) ==
    <<"Added ">> \o str(quantity) \o <<" x ", selected_item.name,
      " to cart (Line subtotal: ">>
    \o format_currency(Mul(selected_item.price, quantity)) \o <<").">>

\* the top of the loop: the menu, then the selection prompt
LoopTop == display_menu(menu) \o <<SelectionPrompt>>

Init ==
    /\ menu = build_menu
    /\ pc = "Browsing"
    /\ cart = <<>>
    /\ item_number = None
    /\ out = LoopTop
    /\ log = <<>>
    /\ last = [prompt |-> "none", text |-> <<>>]

Quit(text) ==
    /\ pc = "Browsing"
    /\ ~prompt_item_selection(menu, text).raised
    /\ prompt_item_selection(menu, text).action = "quit"
    /\ item_number' = None
    /\ out' = << <<>>, <<"Exiting without checkout. Goodbye!">> >>
    /\ pc' = "Quit"
    /\ last' = [prompt |-> "selection", text |-> text]
    /\ UNCHANGED <<menu, cart, log>>

\* a variant of Checkout without the break: the loop goes on
CheckoutNoBreak(text) ==
    /\ pc = "Browsing"
    /\ ~prompt_item_selection(menu, text).raised
    /\ prompt_item_selection(menu, text).action = "checkout"
    /\ item_number' = None
    /\ out' = print_receipt(cart) \o << <<>>, <<"Thank you for shopping!">> >> \o LoopTop
    /\ pc' = "Browsing"
    /\ last' = [prompt |-> "selection", text |-> text]
    /\ UNCHANGED <<menu, cart, log>>

Checkout(text) ==
    /\ pc = "Browsing"
    /\ ~prompt_item_selection(menu, text).raised
    /\ prompt_item_selection(menu, text).action = "checkout"
    /\ item_number' = None
    /\ out' = print_receipt(cart) \o << <<>>, <<"Thank you for shopping!">> >>
    /\ pc' = "Checkout"
    /\ last' = [prompt |-> "selection", text |-> text]
    /\ UNCHANGED <<menu, cart, log>>

InvalidSelection(text) ==
    /\ pc = "Browsing"
    /\ ~prompt_item_selection(menu, text).raised
    /\ prompt_item_selection(menu, text).action = "invalid"
    /\ item_number' = None
    /\ out' = <<InvalidSelectionMessage>> \o LoopTop
    /\ pc' = "Browsing"
    /\ last' = [prompt |-> "selection", text |-> text]
    /\ UNCHANGED <<menu, cart, log>>

SelectItem(text) ==
    /\ pc = "Browsing"
    /\ Len(log) < MaxAdds
    /\ ~prompt_item_selection(menu, text).raised
    /\ prompt_item_selection(menu, text).action = "add"
    /\ item_number' = prompt_item_selection(menu, text).item_number
    /\ out' = <<QuantityPrompt>>
    /\ pc' = "AwaitingQuantity"
    /\ last' = [prompt |-> "selection", text |-> text]
    /\ UNCHANGED <<menu, cart, log>>

\* int(user_input) raises ValueError inside prompt_item_selection: nothing
\* catches it, the process ends with a traceback on stderr
SelectionRaises(text) ==
    /\ pc = "Browsing"
    /\ prompt_item_selection(menu, text).raised
    /\ out' = <<>>
    /\ pc' = "Crashed"
    /\ last' = [prompt |-> "selection", text |-> text]
    /\ UNCHANGED <<menu, cart, item_number, log>>

InvalidQuantity(text) ==
    /\ pc = "AwaitingQuantity"
    /\ ~prompt_quantity(text).raised
    /\ ~prompt_quantity(text).valid
    /\ out' = <<InvalidQuantityMessage>> \o LoopTop
    /\ pc' = "Browsing"
    /\ last' = [prompt |-> "quantity", text |-> text]
    /\ UNCHANGED <<menu, cart, item_number, log>>

\* a variant of AddItem that calls add_to_cart twice
AddItemTwice(text) ==
    /\ pc = "AwaitingQuantity"
    /\ ~prompt_quantity(text).raised
    /\ prompt_quantity(text).valid
    /\ LET quantity == prompt_quantity(text).quantity
       IN  /\ cart' = add_to_cart(add_to_cart(cart, item_number, menu, quantity),
                                  item_number, menu, quantity)
           /\ out' = <<AddedMessage(quantity, Get(menu, item_number))>> \o LoopTop
           /\ log' = Append(log, [item_number |-> item_number, quantity |-> quantity])
    /\ pc' = "Browsing"
    /\ last' = [prompt |-> "quantity", text |-> text]
    /\ UNCHANGED <<menu, item_number>>

AddItem(text) ==
    /\ pc = "AwaitingQuantity"
    /\ ~prompt_quantity(text).raised
    /\ prompt_quantity(text).valid
    /\ LET quantity == prompt_quantity(text).quantity
       IN  /\ cart' = add_to_cart(cart, item_number, menu, quantity)
           /\ out' = <<AddedMessage(quantity, Get(menu, item_number))>> \o LoopTop
           /\ log' = Append(log, [item_number |-> item_number, quantity |-> quantity])
    /\ pc' = "Browsing"
    /\ last' = [prompt |-> "quantity", text |-> text]
    /\ UNCHANGED <<menu, item_number>>

\* int(qty_input) raises ValueError inside prompt_quantity
QuantityRaises(text) ==
    /\ pc = "AwaitingQuantity"
    /\ prompt_quantity(text).raised
    /\ out' = <<>>
    /\ pc' = "Crashed"
    /\ last' = [prompt |-> "quantity", text |-> text]
    /\ UNCHANGED <<menu, cart, item_number, log>>

Next ==
    \/ \E text \in SelectionLines : Quit(text)
    \/ \E text \in SelectionLines : Checkout(text)
    \/ \E text \in SelectionLines : InvalidSelection(text)
    \/ \E text \in SelectionLines : SelectItem(text)
    \/ \E text \in SelectionLines : SelectionRaises(text)
    \/ \E text \in QuantityLines : InvalidQuantity(text)
    \/ \E text \in QuantityLines : AddItem(text)
    \/ \E text \in QuantityLines : QuantityRaises(text)

Spec == Init /\ [][Next]_vars

(***************************************************************************)
(* Vocabulary of the properties.  These read the input text and the        *)
(* printed lines the way the specification words them; none of them uses   *)
(* prompt_item_selection, prompt_quantity or calculate_total.              *)
(***************************************************************************)
AsciiDigits == {DigitChars[i] : i \in 1..10}

\* the text with surrounding blanks dropped and letters in lower case
Typed(text) == lower(strip(text))

\* a string of decimal digits
IsDigitString(text) ==
    /\ Typed(text) # <<>>
    /\ \A i \in 1..Len(Typed(text)) : Typed(text)[i] \in AsciiDigits \cup {"ARABIC3"}

\* the number a digit string denotes
Denoted(text) == Norm([i \in 1..Len(Typed(text)) |-> DigitValue(Typed(text)[i])])

IsCommand(text) == Typed(text) \in { <<"c">>, <<"q">> }

IsCatalogId(text) ==
    IsDigitString(text) /\ \E i \in 1..Len(menu) : ToNum(menu[i].key) = Denoted(text)

IsInvalidSelection(text) == ~IsCommand(text) /\ ~IsCatalogId(text)

IsPositiveInteger(text) == IsDigitString(text) /\ Denoted(text) # <<>>

\* "0", "-1": a zero or a negative number
IsZeroOrNegative(text) ==
    \/ IsDigitString(text) /\ Denoted(text) = <<>>
    \/ /\ Len(Typed(text)) > 1
       /\ Head(Typed(text)) = "-"
       /\ IsDigitString(Tail(Typed(text)))

price(id) == (CHOOSE e \in {menu[i] : i \in 1..Len(menu)} : e.key = id).value.price

\* the positions of the cart that hold a line for id
LinesFor(id) == {i \in 1..Len(cart) : cart[i].key = id}

\* the sum of all quantities added for id
RECURSIVE AddedIn(_, _)
AddedIn(calls, id) ==
    IF calls = <<>> THEN <<>>
    ELSE Add(IF Head(calls).item_number = id THEN Head(calls).quantity ELSE <<>>,
             AddedIn(Tail(calls), id))

Added(id) == AddedIn(log, id)

\* the sum over the ids in the cart of price(id) * quantity(id)
RECURSIVE SumOver(_)
SumOver(ids) ==
    IF ids = {} THEN <<>>
    ELSE LET id == CHOOSE x \in ids : TRUE
         IN  Add(Mul(price(id), cart[CHOOSE i \in LinesFor(id) : TRUE].value.quantity),
                 SumOver(ids \ {id}))

SumOfSubtotals == SumOver({cart[i].key : i \in 1..Len(cart)})

\* the number a printed line shows: its decimal digits, read in order
RECURSIVE DigitsOf(_)
DigitsOf(printed) ==
    IF printed = <<>> THEN <<>>
    ELSE (IF Head(printed) \in AsciiDigits THEN <<DigitValue(Head(printed))>> ELSE <<>>)
         \o DigitsOf(Tail(printed))

Shown(printed) == Norm(DigitsOf(printed))

\* the lines of the receipt in the output of a checkout on a non-empty cart:
\* a blank line, the title, the column header, a rule, the rows, a rule,
\* the total; then main's blank line and thanks
ReceiptRows == SubSeq(out, 5, Len(out) - 4)

ReceiptTotal == out[Len(out) - 2]

\* the item number of a receipt row, from the name it starts with
RowId(row) == CHOOSE id \in 1..Len(menu) : \E i \in 1..Len(menu) :
                 menu[i].key = id /\ menu[i].value.name = row[1]

IsRule(printed) == printed # <<>> /\ \A i \in 1..Len(printed) : printed[i] = "-"

Printed(message) == \E i \in 1..Len(out) : out[i] = message

Call(id, q) == [item_number |-> id, quantity |-> ToNum(q)]

(***************************************************************************)
(* C1.  After any sequence of adds, an id that was added has exactly one   *)
(* CartLine, whose quantity is the sum of all quantities added for the id  *)
(* and whose subtotal is price(id) times that sum; an id never added has   *)
(* no line.  Id 1 (price 25000) added with 2 and then 3 has quantity 5 and *)
(* subtotal 125000.                                                        *)
(***************************************************************************)
C1_AddAccumulates ==
    /\ \A id \in 1..Len(menu) :
          IF Added(id) = <<>>
          THEN LinesFor(id) = {}
          ELSE /\ Cardinality(LinesFor(id)) = 1
               /\ \A i \in LinesFor(id) :
                     /\ cart[i].value.quantity = Added(id)
                     /\ subtotal(cart[i].value) = Mul(price(id), Added(id))
    /\ log = <<Call(1, 2), Call(1, 3)>> =>
          /\ Len(cart) = 1
          /\ cart[1].value.quantity = ToNum(5)
          /\ subtotal(cart[1].value) = ToNum(125000)

C1_Witness ==
    /\ Len(log) = 2
    /\ log[1].item_number = log[2].item_number
    /\ log[1].quantity = ToNum(2)
    /\ log[2].quantity = ToNum(3)
    /\ pc = "Browsing"

(***************************************************************************)
(* C2.  In every state total() is the sum of price(id) * quantity(id) over *)
(* the ids in the cart, 0 for the empty cart, and the total the receipt    *)
(* shows at checkout is that value.                                        *)
(***************************************************************************)
C2_TotalIsSumOfSubtotals ==
    /\ calculate_total(cart) = SumOfSubtotals
    /\ cart = <<>> => calculate_total(cart) = <<>>
    /\ (pc = "Checkout" /\ cart # <<>>) => Shown(ReceiptTotal) = SumOfSubtotals

(***************************************************************************)
(* C3.  The cart never holds two lines for one id and never a quantity     *)
(* that is not greater than 0; a zero or negative quantity typed at the    *)
(* quantity prompt is rejected, with no add_to_cart call.                  *)
(***************************************************************************)
C3_CartWellFormed ==
    /\ \A i, j \in 1..Len(cart) : cart[i].key = cart[j].key => i = j
    /\ \A i \in 1..Len(cart) : cart[i].value.quantity # <<>>
    /\ \A i \in 1..Len(log) : log[i].quantity # <<>>

C3_ZeroRejected ==
    (pc = "AwaitingQuantity" /\ IsZeroOrNegative(last'.text))
        => (log' = log /\ cart' = cart /\ Printed(InvalidQuantityMessage)')

\* C3: the cart is well formed in every state, and every step rejects a
\* zero or negative quantity
C3_OneLinePerIdPositiveQuantity == []C3_CartWellFormed /\ [][C3_ZeroRejected]_vars

C3_Witness ==
    /\ last.prompt = "quantity"
    /\ IsZeroOrNegative(last.text)
    /\ cart # <<>>
    /\ pc = "Browsing"

(***************************************************************************)
(* C4.  No line typed at either prompt ends the process with an unhandled  *)
(* error: the session is always at a prompt or at one of its two ends.     *)
(***************************************************************************)
C4_NoInputCrashes == pc \in {"Browsing", "AwaitingQuantity", "Checkout", "Quit"}

(***************************************************************************)
(* C5.  A line at the selection prompt that is neither a command nor the   *)
(* number of a catalog item leaves the cart unchanged, prints the error    *)
(* message and is followed by the selection prompt, not the quantity       *)
(* prompt.                                                                 *)
(***************************************************************************)
C5_InvalidSelectionStep ==
    (pc = "Browsing" /\ IsInvalidSelection(last'.text))
        => /\ cart' = cart
           /\ pc' = "Browsing"
           /\ Printed(InvalidSelectionMessage)'
           /\ out' # <<>> /\ Last(out') = SelectionPrompt

\* C5: every step that reads an invalid selection keeps the cart and stays
\* in Browsing with the error message
C5_InvalidSelectionKeepsBrowsing == [][C5_InvalidSelectionStep]_vars

(***************************************************************************)
(* C6.  A line at the quantity prompt that is not a positive integer       *)
(* leaves the cart unchanged, prints the error message and returns to the  *)
(* selection prompt: the next line is read as a selection.                 *)
(***************************************************************************)
C6_InvalidQuantityStep ==
    (pc = "AwaitingQuantity" /\ ~IsPositiveInteger(last'.text))
        => /\ cart' = cart
           /\ log' = log
           /\ pc' = "Browsing"
           /\ Printed(InvalidQuantityMessage)'
           /\ out' # <<>> /\ Last(out') = SelectionPrompt

\* C6: every step that reads an invalid quantity keeps the cart and returns
\* to Browsing with the error message
C6_InvalidQuantityReturnsToBrowsing == [][C6_InvalidQuantityStep]_vars

(***************************************************************************)
(* C7.  A checkout with an empty cart prints the empty-cart message and    *)
(* nothing of a receipt: no title, no column header, no rule, no row, no   *)
(* total.  The only lines after the message are main's closing ones.       *)
(***************************************************************************)
C7_EmptyCheckout ==
    (pc = "Checkout" /\ cart = <<>>)
        => /\ out = << <<>>, <<"Your cart is empty. Nothing to checkout.">>,
                       <<>>, <<"Thank you for shopping!">> >>
           /\ \A i \in 1..Len(out) :
                 /\ ~IsRule(out[i])
                 /\ out[i] # <<"=== Itemized Bill ===">>
                 /\ (out[i] # <<>> => out[i][1] \notin {"Item", "Total"})

C7_Witness == pc = "Checkout" /\ cart = <<>> /\ last.text = <<"C">>

(***************************************************************************)
(* C8.  Checkout and Quit are entered only from Browsing.  At Checkout the *)
(* receipt has been printed; at Quit the goodbye message and no receipt.   *)
(* In both no step follows: no line is read, the cart stays as it is.      *)
(***************************************************************************)
C8_AtTheEnds ==
    /\ pc = "Checkout" =>
          /\ last.prompt = "selection" /\ Typed(last.text) = <<"c">>
          /\ IF cart = <<>>
             THEN Printed(<<"Your cart is empty. Nothing to checkout.">>)
             ELSE /\ Printed(<<"=== Itemized Bill ===">>)
                  /\ Len(ReceiptRows) = Len(cart)
                  /\ ReceiptTotal[1] = "Total"
          /\ Printed(<<"Thank you for shopping!">>)
    /\ pc = "Quit" =>
          /\ last.prompt = "selection" /\ Typed(last.text) = <<"q">>
          /\ out = << <<>>, <<"Exiting without checkout. Goodbye!">> >>
    /\ pc \in {"Checkout", "Quit"} => ~ENABLED Next

C8_EnteredFromBrowsing ==
    /\ (pc' \in {"Checkout", "Quit"} /\ pc' # pc) => pc = "Browsing"
    /\ (pc = "Browsing" /\ Typed(last'.text) = <<"c">>) => pc' = "Checkout"
    /\ (pc = "Browsing" /\ Typed(last'.text) = <<"q">>) => pc' = "Quit"

\* C8: Checkout and Quit are ends of the session, entered from Browsing only
C8_TerminalStates == []C8_AtTheEnds /\ [][C8_EnteredFromBrowsing]_vars

C8_Witness == pc = "Quit" /\ Len(cart) = 2

(***************************************************************************)
(* C9.  At the selection prompt a line is a checkout exactly when it is    *)
(* "c", a quit exactly when it is "q", an add of an id exactly when it is  *)
(* the number of a catalog item, and invalid otherwise; at the quantity    *)
(* prompt a line is accepted exactly when it is a positive integer and is  *)
(* invalid otherwise.  (Read on the text as typed, blanks and case aside.) *)
(***************************************************************************)
C9_ClassifiedStep ==
    /\ pc = "Browsing" =>
          /\ pc' = "Checkout" <=> Typed(last'.text) = <<"c">>
          /\ pc' = "Quit" <=> Typed(last'.text) = <<"q">>
          /\ pc' = "AwaitingQuantity" <=> IsCatalogId(last'.text)
          /\ pc' = "AwaitingQuantity" => ToNum(item_number') = Denoted(last'.text)
          /\ (pc' = "Browsing" /\ Printed(InvalidSelectionMessage)')
                <=> IsInvalidSelection(last'.text)
    /\ pc = "AwaitingQuantity" =>
          /\ (pc' = "Browsing" /\ Len(log') = Len(log) + 1)
                <=> IsPositiveInteger(last'.text)
          /\ (pc' = "Browsing" /\ log' = log /\ Printed(InvalidQuantityMessage)')
                <=> ~IsPositiveInteger(last'.text)

\* C9: every step classifies the line it reads as the claim says
C9_InputClassification == [][C9_ClassifiedStep]_vars

(***************************************************************************)
(* C10.  The receipt of a non-empty cart has exactly one row per CartLine, *)
(* in ascending order of item number whatever the order of the adds.  Id 9 *)
(* with 1 and then id 6 with 2 lists 6 before 9, with total 32000.         *)
(***************************************************************************)
C10_ReceiptRowsAscending ==
    (pc = "Checkout" /\ cart # <<>>) =>
        /\ Len(ReceiptRows) = Len(cart)
        /\ {RowId(ReceiptRows[i]) : i \in 1..Len(ReceiptRows)}
              = {cart[i].key : i \in 1..Len(cart)}
        /\ \A i, j \in 1..Len(ReceiptRows) :
              i < j => RowId(ReceiptRows[i]) < RowId(ReceiptRows[j])
        /\ log = <<Call(9, 1), Call(6, 2)>> =>
              /\ <<RowId(ReceiptRows[1]), RowId(ReceiptRows[2])>> = <<6, 9>>
              /\ calculate_total(cart) = ToNum(32000)
              /\ Shown(ReceiptTotal) = ToNum(32000)

C10_Witness == pc = "Checkout" /\ log = <<Call(9, 1), Call(6, 2)>>

(***************************************************************************)
(* Vocabulary of the later properties.                                     *)
(***************************************************************************)
\* the decimal digits of n with "." before every group of three from the right
RECURSIVE DottedDigits(_)
DottedDigits(digits) ==
    IF Len(digits) <= 3 THEN digits
    ELSE DottedDigits(SubSeq(digits, 1, Len(digits) - 3))
         \o <<".">> \o SubSeq(digits, Len(digits) - 2, Len(digits))

\* "Rp " and the exact decimal digits of n, grouped
ExactCurrency(n) == <<"R", "p", " ">> \o DottedDigits(str(n))

\* the amounts the session hands to format_currency
AmountsFormatted ==
    {subtotal(cart[i].value) : i \in 1..Len(cart)}
    \cup {ToNum(menu[i].value.price) : i \in 1..Len(menu)}
    \cup {calculate_total(cart)}
    \cup {Mul(price(log[i].item_number), log[i].quantity) : i \in 1..Len(log)}

QuantityOf(c, id) == c[CHOOSE i \in 1..Len(c) : c[i].key = id].value.quantity

ItemOf(c, id) == c[CHOOSE i \in 1..Len(c) : c[i].key = id].value.item

KeysOf(c) == {c[i].key : i \in 1..Len(c)}

\* the sum of the quantities of all lines
RECURSIVE TotalQuantity(_)
TotalQuantity(c) ==
    IF c = <<>> THEN <<>> ELSE Add(Head(c).value.quantity, TotalQuantity(Tail(c)))

\* the sum of the subtotals of all lines, from the catalog's prices
RECURSIVE TotalOf(_)
TotalOf(c) ==
    IF c = <<>> THEN <<>>
    ELSE Add(Mul(price(Head(c).key), Head(c).value.quantity), TotalOf(Tail(c)))

\* the positions of a printed line where an amount starts
AmountStarts(printed) == {i \in 1..Len(printed) : printed[i] = "R"}

\* the unit price a receipt row shows: its first amount
RowPrice(row) ==
    LET a == CHOOSE i \in AmountStarts(row) : \A j \in AmountStarts(row) : i <= j
        b == CHOOSE i \in AmountStarts(row) : \A j \in AmountStarts(row) : i >= j
    IN  Shown(SubSeq(row, a, b - 1))

\* the text of a printed line from its last amount on
LastAmount(printed) ==
    LET b == CHOOSE i \in AmountStarts(printed) : \A j \in AmountStarts(printed) : i >= j
    IN  SubSeq(printed, b, Len(printed))

\* the lines of a printed receipt that are laid out in columns: the header,
\* the rows and the total
ReceiptHeader == out[3]

Columned == <<ReceiptHeader>> \o ReceiptRows \o <<ReceiptTotal>>

\* the last 14 characters of a printed line that ends with an amount
Tail14(printed) == SubSeq(printed, Len(printed) - 13, Len(printed))

(***************************************************************************)
(* C11.  For every non-negative amount format_currency returns "Rp " and   *)
(* the exact decimal digits of the amount with "." every three digits      *)
(* from the right: 0, 1000, 25000 and 1234567 give "Rp 0", "Rp 1.000",     *)
(* "Rp 25.000", "Rp 1.234.567", and so does every amount the session       *)
(* formats, however large.                                                 *)
(***************************************************************************)
C11_FormatCurrencyExact ==
    /\ format_currency(ToNum(0)) = <<"R", "p", " ", "0">>
    /\ format_currency(ToNum(1000)) = <<"R", "p", " ", "1", ".", "0", "0", "0">>
    /\ format_currency(ToNum(25000)) = <<"R", "p", " ", "2", "5", ".", "0", "0", "0">>
    /\ format_currency(ToNum(1234567))
          = <<"R", "p", " ", "1", ".", "2", "3", "4", ".", "5", "6", "7">>
    /\ \A n \in AmountsFormatted : format_currency(n) = ExactCurrency(n)

(***************************************************************************)
(* C12.  The cart starts empty and changes only in the step from           *)
(* AwaitingQuantity to Browsing that reads a valid quantity, by exactly    *)
(* one add; no line is ever removed, no quantity and no total decreases.   *)
(***************************************************************************)
C12_CartStep ==
    /\ cart' # cart =>
          /\ pc = "AwaitingQuantity" /\ pc' = "Browsing"
          /\ IsPositiveInteger(last'.text)
    /\ (pc = "AwaitingQuantity" /\ pc' = "Browsing" /\ IsPositiveInteger(last'.text)) =>
          /\ Len(log') = Len(log) + 1
          /\ TotalQuantity(cart') = Add(TotalQuantity(cart), Denoted(last'.text))
          /\ KeysOf(cart') = KeysOf(cart) \cup {item_number}
    /\ \A id \in KeysOf(cart) :
          /\ id \in KeysOf(cart')
          /\ ~Less(QuantityOf(cart', id), QuantityOf(cart, id))
    /\ ~Less(calculate_total(cart'), calculate_total(cart))

\* C12: the cart is empty at the start and every step is a C12_CartStep
C12_CartOnlyGrowsByAdd == cart = <<>> /\ [][C12_CartStep]_vars

C12_Witness ==
    /\ Len(log) = 2 /\ Len(cart) = 1
    /\ last.prompt = "quantity"
    /\ pc = "Browsing"

(***************************************************************************)
(* C13.  The quantity prompt is issued only by a valid item selection in   *)
(* Browsing.  AwaitingQuantity is left by the next line: a valid quantity  *)
(* makes one add for the selected item, an invalid one none, and both      *)
(* return to Browsing; "c" and "q" are not commands there.                 *)
(***************************************************************************)
C13_QuantityStep ==
    /\ (pc' = "AwaitingQuantity" \/ Printed(QuantityPrompt)') =>
          /\ pc = "Browsing" /\ pc' = "AwaitingQuantity"
          /\ IsCatalogId(last'.text)
          /\ ToNum(item_number') = Denoted(last'.text)
    /\ pc = "AwaitingQuantity" =>
          /\ pc' = "Browsing"
          /\ IF IsPositiveInteger(last'.text)
             THEN log' = Append(log, [item_number |-> item_number,
                                      quantity |-> Denoted(last'.text)])
             ELSE log' = log /\ cart' = cart

\* C13: every step is a C13_QuantityStep
C13_AwaitingQuantityOneLine == [][C13_QuantityStep]_vars

(***************************************************************************)
(* C14.  An add of q for id changes the line of id only, creating it with  *)
(* q or raising its quantity by q; every other line keeps its item and     *)
(* quantity.  A step that is no add leaves the cart as it is, and no step  *)
(* changes the catalog.                                                    *)
(***************************************************************************)
C14_FrameStep ==
    /\ menu' = menu
    /\ IF Len(log') = Len(log) + 1
       THEN LET id == item_number
                q  == Denoted(last'.text)
            IN  /\ KeysOf(cart') = KeysOf(cart) \cup {id}
                /\ Len(cart') = Cardinality(KeysOf(cart'))
                /\ QuantityOf(cart', id)
                      = IF id \in KeysOf(cart) THEN Add(QuantityOf(cart, id), q) ELSE q
                /\ \A k \in KeysOf(cart) \ {id} :
                      /\ QuantityOf(cart', k) = QuantityOf(cart, k)
                      /\ ItemOf(cart', k) = ItemOf(cart, k)
       ELSE cart' = cart

\* C14: the catalog is the one built at the start and every step is a
\* C14_FrameStep
C14_AddIsLocal == [](menu = build_menu) /\ [][C14_FrameStep]_vars

C14_Witness ==
    /\ Len(log) = 2 /\ Len(cart) = 2
    /\ last.prompt = "quantity"
    /\ pc = "Browsing"

(***************************************************************************)
(* C15.  The keys of the cart are catalog ids, the line under id holds the *)
(* catalog's item for id (same name, same price), and each receipt row     *)
(* shows the catalog price of its id as the unit price.                    *)
(***************************************************************************)
C15_CartReferencesCatalog ==
    /\ \A i \in 1..Len(cart) :
          /\ \E j \in 1..Len(menu) :
                /\ menu[j].key = cart[i].key
                /\ menu[j].value.name = cart[i].value.item.name
                /\ menu[j].value.price = cart[i].value.item.price
    /\ (pc = "Checkout" /\ cart # <<>>) =>
          \A i \in 1..Len(ReceiptRows) :
              RowPrice(ReceiptRows[i]) = ToNum(price(sorted(cart)[i].key))

C15_Witness == pc = "Checkout" /\ Len(cart) = 2 /\ cart[1].key > cart[2].key

(***************************************************************************)
(* C16.  On every receipt the header, each item row and the total row are  *)
(* as wide as the rule, 46 characters, and the total amount is             *)
(* right-aligned in the last 14 of them like the subtotals.                *)
(***************************************************************************)
C16_ReceiptColumnsAligned ==
    (pc = "Checkout" /\ cart # <<>>) =>
        /\ TextLen(Rule) = 46
        /\ \A i \in 1..Len(Columned) : TextLen(Columned[i]) = TextLen(Rule)
        /\ \A i \in 1..Len(Columned) :
              IF i = 1 THEN TRUE
              ELSE /\ TextLen(LastAmount(Columned[i])) <= 14
                   /\ Tail14(Columned[i])
                         = rjust(LastAmount(Columned[i]), 14)

(***************************************************************************)
(* C17.  After every successful add, the amount the confirmation message   *)
(* reports as "Line subtotal" is the subtotal of that item's CartLine in   *)
(* the cart: the price times the accumulated quantity.                     *)
(***************************************************************************)
C17_ConfirmationShowsLineSubtotal ==
    (pc = "Browsing" /\ last.prompt = "quantity" /\ out[1][1] = "Added ")
        => LastAmount(out[1])
              = format_currency(Mul(price(item_number), QuantityOf(cart, item_number)))
                   \o <<").">>

====
